---------------------------- MODULE Spec2Model ----------------------------
(***************************************************************************)
(* A model of solveCatenary (src/src/cat.tsx): input validation, the seed  *)
(* list, the damped Newton-Raphson driver with its backtracking line       *)
(* search, the 3x3 Gaussian elimination, and the top-level loop over the   *)
(* seeds.                                                                  *)
(*                                                                         *)
(* Numbers.  TLA+ has no floating point and no cosh/sinh, so the model     *)
(* keeps of every number exactly what the code's control flow reads:       *)
(*  - the inputs are small integers, on which the validation arithmetic    *)
(*    is exact;                                                            *)
(*  - a seed is kept symbolically (a as a multiple of estimatedA, b as an  *)
(*    exact multiple of 1/10, c as midY - a);                              *)
(*  - a parameter vector (a,b,c) met during iteration is kept as the sign  *)
(*    class of a and the rank of its residual norm among the values and    *)
(*    thresholds the code compares it with.  The only operations the code  *)
(*    applies to a residual norm are "<" against 1e-10, 1e-6 and another   *)
(*    residual norm, so an order-preserving rank loses nothing; which rank *)
(*    a new vector gets is an input of the model (\E);                     *)
(*  - the linear solver runs on exact fractions n/d in which d = 0 stands  *)
(*    for the IEEE-754 values a division by zero produces in JavaScript:   *)
(*    n/0 is +Infinity (n > 0) or -Infinity (n < 0), 0/0 is NaN.  The      *)
(*    sign of a zero is not kept.                                          *)
(***************************************************************************)
EXTENDS Integers, Sequences, FiniteSets, TLC

VARIABLES
    points,          \* the argument points: <<<<x1, y1>>, <<x2, y2>>>>
    s,               \* the argument s (arc length)
    call,            \* 1: first call of the caller, 2: the call with the points swapped
    prev,            \* what the first call returned (Nothing during the first call)
    pc,              \* position in solveCatenary / newtonRaphson
    outcome,         \* "running", an error kind, "solution" or "null"
    errMin,          \* minArcLength squared carried by the too-short error (Nothing otherwise)
    initialGuesses,  \* the seed list
    gi,              \* number of seeds handed to newtonRaphson so far
    guess,           \* the seed of the current attempt (the loop variable of line 197)
    tried,           \* the attempts finished so far: their seeds and how they ended
    params,          \* newtonRaphson: the current iterate
    iter,            \* newtonRaphson: loop counter iter
    ls,              \* newtonRaphson: line-search counter ls
    delta,           \* newtonRaphson: the step solveLinearSystem returned
    newParams,       \* newtonRaphson: the update computed by the last trial
    zeroPivot,       \* whether that solveLinearSystem call divided by a zero pivot
    installed,       \* whether the line search of this iteration assigned params = newParams
    result           \* what newtonRaphson returned / what solveCatenary returns

vars == <<points, s, call, prev, pc, outcome, errMin, initialGuesses, gi, guess, tried,
          params, iter, ls, delta, newParams, zeroPivot, installed, result>>

Nothing == <<>>

-----------------------------------------------------------------------------
(* Program constants. *)

\* maxIter = 100, the default of newtonRaphson
MaxIter == 100

\* the line-search budget: for (let ls = 0; ls < 10; ls++)
LineSearchBudget == 10

-----------------------------------------------------------------------------
(* Bounds of the model. *)

\* residual norms are ranked 0 .. MaxNorm (finite), MaxNorm + 1 (Infinity)
MaxNorm == 2

\* coordinates of the input grid of SpecInput are 0 .. MaxCoord
MaxCoord == 4

\* arc lengths of the input grid of SpecInput are -1 .. MaxArc
MaxArc == 6

-----------------------------------------------------------------------------
(* Residual norms, by rank.  Rank 0 is a norm below 1e-10, rank 1 a norm   *)
(* in [1e-10, 1e-6), ranks 2 .. MaxNorm are finite norms >= 1e-6 in        *)
(* increasing order, InfNorm is Infinity and NaNNorm is NaN.               *)

NaNNorm == 0 - 1

InfNorm == MaxNorm + 1

Norms == {NaNNorm} \cup (0 .. InfNorm)

\* tolerance = 1e-10 (newtonRaphson's default): the least rank not below it
Tolerance == 1

\* the acceptance threshold 1e-6 of solveCatenary: the least rank not below it
AcceptThreshold == 2

\* x < y on doubles: false as soon as one side is NaN
LessNaNTrue(x, y) == x = NaNNorm \/ y = NaNNorm \/ x < y

Less(x, y) == x # NaNNorm /\ y # NaNNorm /\ x < y

-----------------------------------------------------------------------------
(* Doubles as fractions <<n, d>> with d >= 0; d = 0 gives the non-finite   *)
(* values: <<1,0>> is Infinity, <<-1,0>> is -Infinity, <<0,0>> is NaN.      *)

RECURSIVE Gcd(_, _)
Gcd(m, n) == IF n = 0 THEN m ELSE Gcd(n, m % n)

Abs(n) == IF n < 0 THEN 0 - n ELSE n

Sgn(n) == IF n < 0 THEN 0 - 1 ELSE IF n > 0 THEN 1 ELSE 0

Frac(n, d) ==
    IF d = 0 THEN <<Sgn(n), 0>>
    ELSE LET g == Gcd(Abs(n), Abs(d))
         IN  <<Sgn(d) * (n \div g), Abs(d) \div g>>

NaN == <<0, 0>>

IsNaN(x) == x = NaN

IsFinite(x) == x[2] # 0

\* x + y: Infinity + -Infinity is NaN, Infinity + Infinity is Infinity
FAdd(x, y) ==
    IF x[2] = 0 /\ y[2] = 0
    THEN (IF x = y THEN x ELSE NaN)
    ELSE Frac(x[1] * y[2] + y[1] * x[2], x[2] * y[2])

FNeg(x) == <<0 - x[1], x[2]>>

FSub(x, y) == FAdd(x, FNeg(y))

\* x * y: 0 * Infinity is NaN
FMul(x, y) == Frac(x[1] * y[1], x[2] * y[2])

\* x / y never throws: n/0 is +-Infinity, 0/0 and Infinity/Infinity are NaN
FDiv(x, y) == Frac(x[1] * y[2] * (IF y[1] < 0 THEN 0 - 1 ELSE 1), x[2] * Abs(y[1]))

\* Math.abs(x) > Math.abs(y): false as soon as one side is NaN
AbsGreater(x, y) ==
    /\ ~IsNaN(x)
    /\ ~IsNaN(y)
    /\ Abs(x[1]) * y[2] > Abs(y[1]) * x[2]

-----------------------------------------------------------------------------
(* solveLinearSystem: Gaussian elimination with partial pivoting on the    *)
(* augmented 3 x 4 matrix (rows and columns counted from 1 here).          *)

Augmented(A, b) == [i \in 1..3 |-> [j \in 1..4 |-> IF j = 4 THEN b[i] ELSE A[i][j]]]

\* the pivot search of column i: maxRow moves only on a strictly greater magnitude
RECURSIVE MaxRow(_, _, _, _)
MaxRow(M, i, k, maxRow) ==
    IF k > 3 THEN maxRow
    ELSE MaxRow(M, i, k + 1, IF AbsGreater(M[k][i], M[maxRow][i]) THEN k ELSE maxRow)

SwapRows(M, i, m) == [M EXCEPT ![i] = M[m], ![m] = M[i]]

\* row k minus factor times row i, on the columns j >= i
EliminateRow(M, i, k) ==
    LET factor == FDiv(M[k][i], M[i][i])
    IN  [j \in 1..4 |-> IF j >= i THEN FSub(M[k][j], FMul(factor, M[i][j])) ELSE M[k][j]]

EliminateColumn(M, i) ==
    LET P == SwapRows(M, i, MaxRow(M, i, i + 1, i))
    IN  [k \in 1..3 |-> IF k > i THEN EliminateRow(P, i, k) ELSE P[k]]

ForwardElimination(M) == EliminateColumn(EliminateColumn(EliminateColumn(M, 1), 2), 3)

BackSubstitution(M) ==
    LET x3 == FDiv(M[3][4], M[3][3])
        x2 == FDiv(FSub(M[2][4], FMul(M[2][3], x3)), M[2][2])
        x1 == FDiv(FSub(FSub(M[1][4], FMul(M[1][2], x2)), FMul(M[1][3], x3)), M[1][1])
    IN  <<x1, x2, x3>>

\* the value returned; no statement of the function throws
solveLinearSystem(A, b) == BackSubstitution(ForwardElimination(Augmented(A, b)))

\* whether one of the pivots augmented[i][i] the code divides by is zero
HasZeroPivot(A, b) ==
    LET U == ForwardElimination(Augmented(A, b))
    IN  \E i \in 1..3 : U[i][i] = <<0, 1>>

-----------------------------------------------------------------------------
(* jacobian: the matrices handed to solveLinearSystem.  Its third column   *)
(* is the constant (1, 1, 0); the other entries are cosh/sinh expressions, *)
(* of which two samples are kept: a regular matrix, and the matrix the     *)
(* formulas give once (x1-b)/a and (x2-b)/a are so small that cosh rounds  *)
(* to 1 and both differences of the third row cancel to 0.                 *)

Ints(M) == [i \in 1..3 |-> [j \in 1..Len(M[i]) |-> <<M[i][j], 1>>]]

RegularJacobian == Ints(<< <<1, 0 - 1, 1>>, <<1, 1, 1>>, <<0 - 1, 0, 0>> >>)

FlatJacobian == Ints(<< <<1, 0 - 1, 1>>, <<1, 1, 1>>, <<0, 0, 0>> >>)

\* if (a <= 0) return [[0, 0, 0], [0, 0, 0], [0, 0, 0]]
ZeroJacobian == Ints(<< <<0, 0, 0>>, <<0, 0, 0>>, <<0, 0, 0>> >>)

jacobian(p) == IF p.a = "nonpos" THEN {ZeroJacobian} ELSE {RegularJacobian, FlatJacobian}

\* the right-hand side [-f[0], -f[1], -f[2]] of a non-converged iterate
NegResidual == <<  <<0 - 1, 1>>, <<0 - 1, 1>>, <<1, 1>> >>

-----------------------------------------------------------------------------
(* The arguments. *)

X1(pts) == pts[1][1]

Y1(pts) == pts[1][2]

X2(pts) == pts[2][1]

Y2(pts) == pts[2][2]

\* minArcLength = Math.sqrt((x2 - x1) ** 2 + (y2 - y1) ** 2), kept as its square
MinArcLengthSq(pts) ==
    (X2(pts) - X1(pts)) * (X2(pts) - X1(pts)) + (Y2(pts) - Y1(pts)) * (Y2(pts) - Y1(pts))

AtMostSqrt(v, q) == v < 0 \/ v * v <= q

\* v < Math.sqrt(q) for an integer v and an integer q >= 0
LessThanSqrt(v, q) == v < 0 \/ v * v < q

\* the three checks of solveCatenary, in the order of the code
Validation(pts, len) ==
    IF len <= 0 THEN "InvalidArcLength"
    ELSE IF X1(pts) = X2(pts) THEN "DegenerateInput"
    ELSE IF LessThanSqrt(len, MinArcLengthSq(pts)) THEN "ArcLengthTooShort"
    ELSE "valid"

-----------------------------------------------------------------------------
(* The seed list.  A seed is kept symbolically:                            *)
(*   a = (twice / 2) * estimatedA, with the kind and the sign of           *)
(*       estimatedA;                                                       *)
(*   b = b10 / 10  (midX + k * dx * 0.1 = (5 * (x1 + x2) + k * dx) / 10);  *)
(*   c = midY2 / 2 - a.                                                    *)

\* s / (2 * Math.sinh(dx / (2 * s / Math.PI))): sinh is odd and increasing, so
\* the quotient has the sign of s * dx; it is not finite when sinh(..) is 0
ClosedFormEstimate(pts, len) ==
    LET dx == X2(pts) - X1(pts)
    IN  [kind |-> "closed", sign |-> Sgn(len) * Sgn(dx), finite |-> dx # 0]

\* s / 4
QuarterEstimate(len) == [kind |-> "quarter", sign |-> Sgn(len), finite |-> TRUE]

KeepEstimate(pts, len) == ClosedFormEstimate(pts, len)

\* if (!isFinite(estimatedA) || estimatedA <= 0) estimatedA = s / 4
estimatedA(pts, len) ==
    LET e == ClosedFormEstimate(pts, len)
    IN  IF ~e.finite \/ e.sign <= 0 THEN QuarterEstimate(len) ELSE e

Guess(pts, est, twice, k) ==
    [a |-> [twice |-> twice, kind |-> est.kind, sign |-> est.sign],
     b10 |-> 5 * (X1(pts) + X2(pts)) + k * (X2(pts) - X1(pts)),
     c |-> [midY2 |-> Y1(pts) + Y2(pts), minus |-> "a"]]

\* for (const aFactor of [0.5, 1.5, 2.0, 3.0]), doubled
AFactors == <<1, 3, 4, 6>>

\* the b of the three pushes of the loop body: midX, midX + dx * 0.1, midX - dx * 0.1
BOffsets == <<0, 1, 0 - 1>>

InitialGuesses(pts, len) ==
    LET est == estimatedA(pts, len)
    IN  <<Guess(pts, est, 2, 0)>> \o
        [n \in 1..(3 * Len(AFactors)) |->
            Guess(pts, est, AFactors[((n - 1) \div 3) + 1], BOffsets[((n - 1) % 3) + 1])]

-----------------------------------------------------------------------------
(* Parameter vectors met during iteration: the class of a ("pos": a > 0,   *)
(* "nonpos": a <= 0, "nan": a is NaN) and r, the rank of the norm of       *)
(* equations(params).                                                      *)

\* the norms equations() can give at a vector with a > 0.  With x2 < x1 the
\* third residual a * (sinh(arg2) - sinh(arg1)) - s is at most -s (arg2 <= arg1),
\* so the norm is at least s >= 1, or NaN
FeasibleNorms(pts, len) ==
    IF X2(pts) < X1(pts) /\ len >= 1
    THEN {n \in Norms : n = NaNNorm \/ n >= AcceptThreshold}
    ELSE Norms

\* if (a <= 0) return [Infinity, Infinity, Infinity]; a NaN a gives NaN residuals
Infeasible == {[a |-> "nonpos", r |-> InfNorm], [a |-> "nan", r |-> NaNNorm]}

Vectors(pts, len) == {[a |-> "pos", r |-> n] : n \in FeasibleNorms(pts, len)} \cup Infeasible

\* Math.sqrt(f[0] * f[0] + f[1] * f[1] + f[2] * f[2]) for f = equations(p)
ResidualNorm(p) == IF p.a = "nonpos" THEN InfNorm ELSE IF p.a = "nan" THEN NaNNorm ELSE p.r

\* [...initialGuess]: the vectors a seed can stand for
SeedVectors(pts, len, seed) ==
    IF seed.a.sign > 0
    THEN {[a |-> "pos", r |-> n] : n \in FeasibleNorms(pts, len)}
    ELSE {[a |-> "nonpos", r |-> InfNorm]}

\* newParams = params + stepSize * delta.  A finite step gives a finite vector,
\* with a > 0 or not; a NaN or infinite delta[0] gives a NaN or infinite a, and
\* a = Infinity (> 0) gives NaN residuals
Trials(pts, len, d) ==
    IF IsFinite(d[1])
    THEN {[a |-> "pos", r |-> n] : n \in FeasibleNorms(pts, len)}
            \cup {[a |-> "nonpos", r |-> InfNorm]}
    ELSE {[a |-> "pos", r |-> NaNNorm]} \cup Infeasible

-----------------------------------------------------------------------------
(* The state after construction: a caller about to call solveCatenary.     *)

Null == [a |-> "null", r |-> NaNNorm]

NoDelta == <<NaN, NaN, NaN>>

Fresh ==
    /\ call = 1
    /\ prev = Nothing
    /\ pc = "entry"
    /\ outcome = "running"
    /\ errMin = Nothing
    /\ initialGuesses = <<>>
    /\ gi = 0
    /\ guess = Nothing
    /\ tried = <<>>
    /\ params = Null
    /\ iter = 0
    /\ ls = 0
    /\ delta = NoDelta
    /\ newParams = Null
    /\ zeroPivot = FALSE
    /\ installed = FALSE
    /\ result = Null

\* the calls of Spec: the points (0,0), (10,0) and twice (0,0), with s = 0, 5, 12
Init ==
    /\ points \in {<< <<0, 0>>, <<10, 0>> >>, << <<0, 0>>, <<0, 0>> >>}
    /\ s \in {0, 5, 12}
    /\ Fresh

\* the calls of SpecInput: every pair of grid points and every grid arc length
InitInput ==
    /\ points \in ((0..MaxCoord) \X (0..MaxCoord)) \X ((0..MaxCoord) \X (0..MaxCoord))
    /\ s \in (0 - 1)..MaxArc
    /\ Fresh

-----------------------------------------------------------------------------
(* solveCatenary, lines 13-23: the validation, which throws or goes on.    *)

Validate ==
    /\ pc = "entry"
    /\ LET v == Validation(points, s)
       IN  IF v = "valid"
           THEN /\ pc' = "seeds"
                /\ UNCHANGED <<outcome, errMin>>
           ELSE /\ pc' = "done"
                /\ outcome' = v
                /\ errMin' = IF v = "ArcLengthTooShort"
                             THEN [sqrtOf |-> MinArcLengthSq(points)]
                             ELSE Nothing
    /\ UNCHANGED <<points, s, call, prev, initialGuesses, gi, guess, tried, params,
                   iter, ls, delta, newParams, zeroPivot, installed, result>>

(* lines 172-194: the seed list *)
BuildSeeds ==
    /\ pc = "seeds"
    /\ initialGuesses' = InitialGuesses(points, s)
    /\ pc' = "pick"
    /\ UNCHANGED <<points, s, call, prev, outcome, errMin, gi, guess, tried, params,
                   iter, ls, delta, newParams, zeroPivot, installed, result>>

\* the seed the loop of line 197 hands out after n seeds
NextFromEnd(n) == Len(initialGuesses) - n

NextInOrder(n) == n + 1

(* lines 197-198 and 124: the next seed is handed to newtonRaphson, which  *)
(* copies it into params and starts at iter = 0                            *)
NextGuess ==
    /\ pc = "pick"
    /\ gi < Len(initialGuesses)
    /\ gi' = gi + 1
    /\ guess' = initialGuesses[NextInOrder(gi)]
    /\ \E p \in SeedVectors(points, s, guess') : params' = p
    /\ iter' = 0
    /\ ls' = 0
    /\ delta' = NoDelta
    /\ newParams' = Null
    /\ zeroPivot' = FALSE
    /\ installed' = FALSE
    /\ result' = Null
    /\ pc' = "loop"
    /\ UNCHANGED <<points, s, call, prev, outcome, errMin, initialGuesses, tried>>

(* line 214: every seed was tried *)
NoSolution ==
    /\ pc = "pick"
    /\ gi >= Len(initialGuesses)
    /\ outcome' = "null"
    /\ result' = Null
    /\ pc' = "done"
    /\ UNCHANGED <<points, s, call, prev, errMin, initialGuesses, gi, guess, tried,
                   params, iter, ls, delta, newParams, zeroPivot, installed>>

-----------------------------------------------------------------------------
(* newtonRaphson, lines 126-169. *)

IterationsLeftAlways(n) == TRUE

\* iter < maxIter
IterationsLeft(n) == n < MaxIter

(* line 169: the loop ends, return null *)
Exhausted ==
    /\ pc = "loop"
    /\ ~IterationsLeft(iter)
    /\ result' = Null
    /\ pc' = "returned"
    /\ UNCHANGED <<points, s, call, prev, outcome, errMin, initialGuesses, gi, guess,
                   tried, params, iter, ls, delta, newParams, zeroPivot, installed>>

(* lines 127-134: residual < tolerance, return params *)
Converged ==
    /\ pc = "loop"
    /\ IterationsLeft(iter)
    /\ Less(ResidualNorm(params), Tolerance)
    /\ result' = params
    /\ pc' = "returned"
    /\ UNCHANGED <<points, s, call, prev, outcome, errMin, initialGuesses, gi, guess,
                   tried, params, iter, ls, delta, newParams, zeroPivot, installed>>

(* lines 128 and 137-142: delta = solveLinearSystem(J, -f), which returns  *)
(* whatever its divisions give; then the line search starts                *)
Solve ==
    /\ pc = "loop"
    /\ IterationsLeft(iter)
    /\ ~Less(ResidualNorm(params), Tolerance)
    /\ \E J \in jacobian(params) :
          /\ delta' = solveLinearSystem(J, NegResidual)
          /\ zeroPivot' = HasZeroPivot(J, NegResidual)
    /\ ls' = 0
    /\ newParams' = Null
    /\ installed' = FALSE
    /\ pc' = "search"
    /\ UNCHANGED <<points, s, call, prev, outcome, errMin, initialGuesses, gi, guess,
                   tried, params, iter, result>>

AcceptsAnyA(np, residual, n) == Less(ResidualNorm(np), residual) \/ n = LineSearchBudget - 1

AcceptsImprovementOnly(np, residual, n) == np.a = "pos" /\ Less(ResidualNorm(np), residual)

\* lines 152-156: newParams[0] > 0, and newNorm < residual || ls === 9
Accepts(np, residual, n) ==
    /\ np.a = "pos"
    /\ (Less(ResidualNorm(np), residual) \/ n = LineSearchBudget - 1)

(* lines 144-162: one trial of the line search at step size 2^-ls: either  *)
(* params = newParams and break (the iteration is over), or stepSize *= 0.5 *)
Trial ==
    /\ pc = "search"
    /\ ls < LineSearchBudget
    /\ \E np \in Trials(points, s, delta) :
          /\ newParams' = np
          /\ IF Accepts(np, ResidualNorm(params), ls)
             THEN /\ params' = np
                  /\ installed' = TRUE
                  /\ iter' = iter + 1
                  /\ pc' = "loop"
                  /\ UNCHANGED ls
             ELSE /\ ls' = ls + 1
                  /\ UNCHANGED <<params, installed, iter, pc>>
    /\ UNCHANGED <<points, s, call, prev, outcome, errMin, initialGuesses, gi, guess,
                   tried, delta, zeroPivot, result>>

(* the line-search loop ends without a break: params stays as it was *)
SearchExhausted ==
    /\ pc = "search"
    /\ ls >= LineSearchBudget
    /\ iter' = iter + 1
    /\ pc' = "loop"
    /\ UNCHANGED <<points, s, call, prev, outcome, errMin, initialGuesses, gi, guess,
                   tried, params, ls, delta, newParams, zeroPivot, installed, result>>

-----------------------------------------------------------------------------
(* solveCatenary, lines 199-211: the check of what newtonRaphson returned. *)

\* result !== null && result[0] > 0, and error < 1e-6 for error the norm of
\* equations(result)
Verified(res) ==
    /\ res # Null
    /\ res.a = "pos"
    /\ Less(ResidualNorm(res), AcceptThreshold)

Verify ==
    /\ pc = "returned"
    /\ IF Verified(result)
       THEN /\ outcome' = "solution"
            /\ pc' = "done"
            /\ tried' = Append(tried, [seed |-> guess, verdict |-> "verified"])
            /\ UNCHANGED result
       ELSE /\ pc' = "pick"
            /\ result' = Null
            /\ tried' = Append(tried, [seed |-> guess, verdict |-> "failed"])
            /\ UNCHANGED outcome
    /\ UNCHANGED <<points, s, call, prev, errMin, initialGuesses, gi, guess, params,
                   iter, ls, delta, newParams, zeroPivot, installed>>

-----------------------------------------------------------------------------
(* The caller of the order test: solveCatenary([P, Q], s), then            *)
(* solveCatenary([Q, P], s).                                               *)

SecondCall ==
    /\ pc = "done"
    /\ call = 1
    /\ outcome \in {"solution", "null"}
    /\ call' = 2
    /\ prev' = [outcome |-> outcome, result |-> result]
    /\ points' = <<points[2], points[1]>>
    /\ pc' = "entry"
    /\ outcome' = "running"
    /\ errMin' = Nothing
    /\ initialGuesses' = <<>>
    /\ gi' = 0
    /\ guess' = Nothing
    /\ tried' = <<>>
    /\ params' = Null
    /\ iter' = 0
    /\ ls' = 0
    /\ delta' = NoDelta
    /\ newParams' = Null
    /\ zeroPivot' = FALSE
    /\ installed' = FALSE
    /\ result' = Null
    /\ UNCHANGED s

-----------------------------------------------------------------------------

Next ==
    \/ Validate
    \/ BuildSeeds
    \/ NextGuess
    \/ NoSolution
    \/ Exhausted
    \/ Converged
    \/ Solve
    \/ Trial
    \/ SearchExhausted
    \/ Verify
    \/ SecondCall

Spec == Init /\ [][Next]_vars

NextInput == Validate \/ BuildSeeds

SpecInput == InitInput /\ [][NextInput]_vars

-----------------------------------------------------------------------------
(* Properties. *)

Errors == {"InvalidArcLength", "DegenerateInput", "ArcLengthTooShort"}

InNewton == pc \in {"loop", "search", "returned"}

\* C1: solveCatenary never returns a non-verified candidate: when it returns
\* parameters, their residual norm is below the acceptance threshold 1e-6 and
\* their a is > 0; in every other case that does not throw it returns null, and
\* a call that throws returns nothing.
C1_OnlyVerifiedReturned ==
    /\ (outcome = "solution") =>
          /\ pc = "done"
          /\ result \in {[a |-> "pos", r |-> n] : n \in 0..(AcceptThreshold - 1)}
    /\ (pc = "done" /\ outcome # "solution") =>
          /\ outcome \in Errors \cup {"null"}
          /\ result = Null

\* C1 witness: a call returned parameters after at least one Newton update
C1_Witness == pc = "done" /\ outcome = "solution" /\ iter > 0 /\ installed

\* C2: validation comes before any seed or iteration and maps every invalid
\* input to its error: s <= 0 to the invalid-arc-length error; otherwise
\* x1 = x2 to the degenerate-input error; otherwise s below the chord length
\* to the too-short error, which carries the computed minimum; none of these
\* calls builds a seed or an iterate; every other input, s equal to the chord
\* length included, raises none of them.
C2_ValidationFirst ==
    LET dx == points[2][1] - points[1][1]
        dy == points[2][2] - points[1][2]
        expected ==
            IF s <= 0 THEN "InvalidArcLength"
            ELSE IF dx = 0 THEN "DegenerateInput"
            ELSE IF s * s < dx * dx + dy * dy THEN "ArcLengthTooShort"
            ELSE "none"
    IN  /\ (pc = "entry") => (outcome = "running" /\ initialGuesses = <<>> /\ params = Null)
        /\ (pc # "entry" /\ expected # "none") =>
              /\ pc = "done"
              /\ outcome = expected
              /\ errMin = IF expected = "ArcLengthTooShort"
                          THEN [sqrtOf |-> dx * dx + dy * dy]
                          ELSE Nothing
              /\ initialGuesses = <<>>
              /\ gi = 0
              /\ iter = 0
              /\ params = Null
        /\ (pc # "entry" /\ expected = "none") =>
              /\ outcome \notin Errors
              /\ errMin = Nothing

\* C2 witness: the points (0,0), (3,4) with s = 5, the chord length itself,
\* passed the validation
C2_Witness ==
    /\ pc = "pick"
    /\ points = << <<0, 0>>, <<3, 4>> >>
    /\ s = 5
    /\ outcome = "running"

\* C3: the returned a is always > 0, and so is the a of the current iterate at
\* every iteration: every seed has a > 0 and the line search installs only an
\* update whose a is > 0.
C3_PositiveA ==
    /\ \A k \in 1..Len(initialGuesses) : initialGuesses[k].a.sign > 0
    /\ InNewton => params.a = "pos"
    /\ (outcome = "solution") => result.a = "pos"

\* C3 witness: parameters were returned after the line search had to reject a
\* trial (ls > 0) before it installed an update
C3_Witness == outcome = "solution" /\ installed /\ ls > 0

\* C4 (as claimed): solveCatenary([P,Q], s) and solveCatenary([Q,P], s) have the
\* same outcome: the same parameters, or no solution both times.
C4_OrderInvariant ==
    (call = 2 /\ pc = "done") => (outcome = prev.outcome /\ result = prev.result)

\* what the code does instead: with x1 > x2 no call ever returns parameters
ReversedNeverSolves == (X2(points) < X1(points)) => outcome # "solution"

\* the seeds of a call with x1 > x2 are built from the points as given
ReversedSeedsDiffer ==
    (pc = "pick" /\ X2(points) < X1(points)) =>
        initialGuesses # InitialGuesses(<<points[2], points[1]>>, s)

\* the number of seeds of a call: 1 + 3 * 4
NumSeeds == 1 + 3 * Len(AFactors)

\* steps of one Newton iteration: the linear solve, the trials, the loop end
IterationCost == LineSearchBudget + 2

\* steps of one attempt: its iterations, its return and the check of the result
AttemptCost == MaxIter * IterationCost + 2

\* steps of one call: validation, seeds, every attempt with its start, the end
CallCost == 2 + NumSeeds * (AttemptCost + 1) + 1

\* an upper bound of the steps the caller's remaining work takes; each step
\* evaluates the residuals at most once
StepsLeft ==
    LET afterAttempt == (NumSeeds - gi) * (AttemptCost + 1) + 1
        inCall ==
            CASE pc = "entry" -> CallCost
              [] pc = "seeds" -> CallCost - 1
              [] pc = "pick" -> afterAttempt
              [] pc = "loop" -> (MaxIter - iter) * IterationCost + 2 + afterAttempt
              [] pc = "search" -> (LineSearchBudget - ls) + 1
                                    + (MaxIter - iter - 1) * IterationCost + 2 + afterAttempt
              [] pc = "returned" -> 1 + afterAttempt
              [] pc = "done" -> 0
    IN  inCall + (IF call = 1 THEN CallCost + 1 ELSE 0)

\* C5: every call terminates within a bound that does not depend on the input:
\* an attempt makes at most 100 iterations, an iteration at most 10 line-search
\* trials, a call tries at most 13 seeds, and every step uses up some of a
\* fixed budget of steps (each step evaluates the residuals at most once).
C5_Terminates ==
    [][/\ StepsLeft' < StepsLeft
       /\ StepsLeft' >= 0
       /\ StepsLeft <= 2 * CallCost + 1
       /\ iter' <= MaxIter
       /\ ls' <= LineSearchBudget
       /\ gi' <= NumSeeds
       /\ Len(initialGuesses') \in {0, NumSeeds}]_vars

\* C5 witness: a call that used its whole budget: 13 seeds of 100 iterations
\* each, the last one ending in a full line search
C5_Witness ==
    /\ pc = "done"
    /\ outcome = "null"
    /\ gi = NumSeeds
    /\ iter = MaxIter
    /\ ls = LineSearchBudget

\* C6 (as claimed): a zero pivot makes solveLinearSystem fail instead of
\* returning a vector, and the driver ends the attempt as Failed at that
\* iteration: no line search follows a linear solve that met a zero pivot.
C6_ZeroPivotEndsAttempt ==
    zeroPivot => (pc \in {"returned", "pick", "done"} /\ delta = NoDelta)

\* what the code does instead: the solve returns a vector that is not finite
ZeroPivotGivesNonFinite ==
    (pc = "search") => (zeroPivot <=> ~(\A i \in 1..3 : IsFinite(delta[i])))

\* C7: seeds are attempted one at a time in the order of the list, each attempt
\* starting from its seed alone; every attempt before the one that returns the
\* solution failed, the solution is that of the first seed whose attempt
\* converged and verified, no seed is attempted after it, and "no solution" is
\* returned only after all seeds were attempted and failed.
C7_FirstVerifiedSeedWins ==
    /\ Len(tried) = (IF InNewton THEN gi - 1 ELSE gi)
    /\ \A k \in 1..Len(tried) :
          /\ tried[k].seed = initialGuesses[k]
          /\ (tried[k].verdict = "verified") <=> (k = Len(tried) /\ outcome = "solution")
    /\ InNewton => guess = initialGuesses[gi]
    /\ (pc = "loop" /\ iter = 0) =>
          /\ params \in SeedVectors(points, s, initialGuesses[gi])
          /\ delta = NoDelta
          /\ newParams = Null
          /\ ~installed
          /\ ~zeroPivot
    /\ (outcome = "solution") =>
          /\ pc = "done"
          /\ Len(tried) = gi
          /\ result = params
          /\ Less(ResidualNorm(result), AcceptThreshold)
    /\ (outcome = "null") =>
          /\ Len(tried) = Len(initialGuesses)
          /\ Len(tried) = NumSeeds

\* C7 witness: the third seed of the list gave the solution after the first two
\* attempts had failed
C7_Witness ==
    /\ outcome = "solution"
    /\ gi = 3
    /\ tried[1].verdict = "failed"
    /\ tried[2].verdict = "failed"
    /\ tried[3].verdict = "verified"

\* C8 (as claimed): when the 10 trials are used up without an accepted trial,
\* the last computed update is installed unconditionally: no iteration leaves
\* the iterate as it was.
C8_UpdateAlwaysInstalled == (pc = "loop" /\ iter > 0 /\ ~zeroPivot) => installed

\* C8 (amended): the line search starts at ls = 0 (step size 1.0) and halves the
\* step per rejected trial; a trial before the last is accepted only if its a
\* is > 0 and its residual norm is strictly smaller than the current one; the
\* last trial (ls = 9) is accepted whatever its norm, provided its a is > 0;
\* when the last trial's a is not > 0 the iterate stays as it was; either way
\* the iteration count goes up by one.
C8_LineSearch ==
    [][/\ (pc = "loop" /\ pc' = "search") => (ls' = 0 /\ params' = params)
       /\ (pc = "search" /\ pc' = "search") =>
             /\ ls' = ls + 1
             /\ params' = params
             /\ ~(newParams'.a = "pos" /\ ResidualNorm(newParams') # NaNNorm
                    /\ ResidualNorm(params) # NaNNorm
                    /\ ResidualNorm(newParams') < ResidualNorm(params))
             /\ ~(newParams'.a = "pos" /\ ls = LineSearchBudget - 1)
       /\ (pc = "search" /\ pc' = "loop") =>
             /\ iter' = iter + 1
             /\ installed' =>
                   /\ params' = newParams'
                   /\ params'.a = "pos"
                   /\ ls' = ls
                   /\ (ls < LineSearchBudget - 1) =>
                         /\ ResidualNorm(params') # NaNNorm
                         /\ ResidualNorm(params) # NaNNorm
                         /\ ResidualNorm(params') < ResidualNorm(params)
             /\ ~installed' =>
                   /\ params' = params
                   /\ ls = LineSearchBudget
                   /\ newParams.a # "pos"]_vars

\* C8 witness: an update whose residuals are NaN was installed by the last trial
C8_Witness ==
    /\ pc = "loop"
    /\ installed
    /\ ls = LineSearchBudget - 1
    /\ params.r = NaNNorm

\* C9 (as claimed): an attempt ends Failed only without convergence: the iterate
\* of an attempt that returned null, having solved every linear system without
\* a zero pivot, has a residual norm that is not below 1e-10.
C9_FailedMeansNotConverged ==
    (pc = "returned" /\ result = Null /\ ~zeroPivot) => ResidualNorm(params) # 0

\* what the code does: an attempt returns parameters only below the tolerance,
\* and returns null only after 100 iterations
AttemptEnds ==
    (pc = "returned") =>
        IF result = Null THEN iter = MaxIter
        ELSE result = params /\ ResidualNorm(params) = 0 /\ iter < MaxIter

\* the a-factors the claim lists, doubled
AFactorsWithOne == <<1, 2, 3, 4, 6>>

\* the seed list the claim describes: the symmetric guess, then every a-factor
\* of {0.5, 1.0, 1.5, 2.0, 3.0} with every b-offset of {0, +10%, -10%}
ClaimedGuesses(pts, len) ==
    LET est == estimatedA(pts, len)
    IN  <<Guess(pts, est, 2, 0)>> \o
        [n \in 1..(3 * Len(AFactorsWithOne)) |->
            Guess(pts, est, AFactorsWithOne[((n - 1) \div 3) + 1], BOffsets[((n - 1) % 3) + 1])]

\* C10 (as claimed): the seed list of a valid input is the symmetric guess
\* followed by the variants of every a-factor in {0.5, 1.0, 1.5, 2.0, 3.0} with
\* every b-offset in {0, +10%, -10% of the x-span}.
C10_ClaimedSeedList ==
    (pc = "pick") =>
        /\ initialGuesses = ClaimedGuesses(points, s)
        /\ \A f \in {1, 2, 3, 4, 6} : \A k \in {0 - 1, 0, 1} :
              \E n \in 1..Len(initialGuesses) :
                  /\ initialGuesses[n].a.twice = f
                  /\ initialGuesses[n].b10 = 5 * (points[1][1] + points[2][1])
                                               + k * (points[2][1] - points[1][1])

\* C10 (amended): the seed list of a valid input is the symmetric guess
\* (estimated a, b at the x-midpoint, c = midY - a) followed by the variants of
\* every a-factor in {0.5, 1.5, 2.0, 3.0} with, in this order, the b-offsets 0,
\* +10% and -10% of x2 - x1: 13 seeds, the factor 1.0 occurring only in the
\* symmetric guess; the estimated a is s/4 when the closed-form estimate is not
\* finite or not positive (here: when x2 < x1), so every seed has a > 0.
C10_SeedList ==
    LET x1 == points[1][1]
        x2 == points[2][1]
        twice == <<2, 1, 1, 1, 3, 3, 3, 4, 4, 4, 6, 6, 6>>
        offset == <<0, 0, 1, 0 - 1, 0, 1, 0 - 1, 0, 1, 0 - 1, 0, 1, 0 - 1>>
    IN  /\ (pc \in {"entry", "seeds"} \/ outcome \in Errors) => initialGuesses = <<>>
        /\ (pc \notin {"entry", "seeds"} /\ outcome \notin Errors) =>
              /\ Len(initialGuesses) = 13
              /\ \A n \in 1..13 :
                    /\ initialGuesses[n].a.twice = twice[n]
                    /\ initialGuesses[n].a.kind = (IF x2 < x1 THEN "quarter" ELSE "closed")
                    /\ initialGuesses[n].a.sign = 1
                    /\ initialGuesses[n].b10 = 5 * (x1 + x2) + offset[n] * (x2 - x1)
                    /\ initialGuesses[n].c = [midY2 |-> points[1][2] + points[2][2], minus |-> "a"]

\* C10 witness: the seeds of the points (4,0), (1,4) with s = 6, whose x2 < x1
\* makes the estimated a fall back to s/4
C10_Witness ==
    /\ pc = "pick"
    /\ points = << <<4, 0>>, <<1, 4>> >>
    /\ s = 6
    /\ initialGuesses[1].a.kind = "quarter"
    /\ initialGuesses[13].b10 = 28

=============================================================================
